---- MODULE Spec2Model ----
(***************************************************************************)
(* Model of docs/generate-pdf.py: the script reads VALUE_PROPOSITION.md,   *)
(* replaces mermaid blocks by numbered figures, converts the markdown to   *)
(* HTML by a fixed sequence of regular-expression passes (md_to_html),     *)
(* writes academic-output.html and hands it to weasyprint inside one       *)
(* try/except.                                                             *)
(*                                                                         *)
(* A Python str is a sequence of one-character strings.  Every regular     *)
(* expression of the script is an operator Re...(s, i) that gives the end  *)
(* (exclusive) of the match Python's backtracking matcher finds starting   *)
(* at position i of s, or 0 when there is none; ReSub is re.sub.           *)
(***************************************************************************)
EXTENDS Integers, Sequences, FiniteSets, TLC

VARIABLES pc, file, md_content, diagram_count, pos, out, text, html_content,
          html_doc, html_written, html_file, pdf_written, size, stdout, exc, exit_code

vars == <<pc, file, md_content, diagram_count, pos, out, text, html_content,
          html_doc, html_written, html_file, pdf_written, size, stdout, exc, exit_code>>

\* ------------------------------------------------------------------------
\* Characters
\* ------------------------------------------------------------------------

NL == "\n"

\* The backquote character, the one character written by name: a string
\* literal of TLA+ cannot hold it.
BT == "BACKQUOTE"

\* \s of a str pattern, and what str.strip() removes (the ASCII part)
WhiteSpace == {" ", "\t", "\n", "\r"}

\* \d
Digits == {"0","1","2","3","4","5","6","7","8","9"}

\* \w
WordChars == Digits \cup {"_"} \cup
  {"a","b","c","d","e","f","g","h","i","j","k","l","m",
   "n","o","p","q","r","s","t","u","v","w","x","y","z",
   "A","B","C","D","E","F","G","H","I","J","K","L","M",
   "N","O","P","Q","R","S","T","U","V","W","X","Y","Z"}

\* ------------------------------------------------------------------------
\* str helpers
\* ------------------------------------------------------------------------

Min(S) == CHOOSE x \in S : \A y \in S : x <= y

Max(S) == CHOOSE x \in S : \A y \in S : x >= y

\* s[i:] starts with lit
At(s, i, lit) ==
  /\ i >= 1
  /\ i + Len(lit) - 1 <= Len(s)
  /\ \A k \in 1..Len(lit) : s[i + k - 1] = lit[k]

\* str.find(lit, i): the first position >= i where lit occurs, 0 when none
Find(s, i, lit) ==
  LET c == {j \in i..Len(s) : At(s, j, lit)}
  IN  IF c = {} THEN 0 ELSE Min(c)

\* s[i:e] of Python with 1-based i and exclusive e
Slice(s, i, e) == SubSeq(s, i, e - 1)

\* the position of the line break ending the line that holds i (Len(s)+1 at the end)
LineEnd(s, i) ==
  LET c == {j \in i..Len(s) : s[j] = NL}
  IN  IF c = {} THEN Len(s) + 1 ELSE Min(c)

\* ^ under re.MULTILINE
AtLineStart(s, i) == i = 1 \/ s[i - 1] = NL

\* the first position >= i that holds no character of set cs (Len(s)+1 at the end)
SkipWhile(s, i, cs) ==
  LET c == {j \in i..Len(s) : s[j] \notin cs}
  IN  IF c = {} THEN Len(s) + 1 ELSE Min(c)

\* the first position >= i that holds a character of set cs (Len(s)+1 at the end)
SkipUntil(s, i, cs) ==
  LET c == {j \in i..Len(s) : s[j] \in cs}
  IN  IF c = {} THEN Len(s) + 1 ELSE Min(c)

\* str.strip()
Strip(s) ==
  LET keep == {i \in 1..Len(s) : s[i] \notin WhiteSpace}
  IN  IF keep = {} THEN <<>> ELSE SubSeq(s, Min(keep), Max(keep))

RECURSIVE SplitFrom(_, _, _)
SplitFrom(s, i, sep) ==
  LET j == Find(s, i, sep)
  IN  IF j = 0 THEN <<Slice(s, i, Len(s) + 1)>>
      ELSE <<Slice(s, i, j)>> \o SplitFrom(s, j + Len(sep), sep)

\* str.split(sep)
Split(s, sep) == SplitFrom(s, 1, sep)

RECURSIVE Join(_, _)
\* sep.join(parts)
Join(parts, sep) ==
  IF parts = <<>> THEN <<>>
  ELSE IF Len(parts) = 1 THEN parts[1]
  ELSE parts[1] \o sep \o Join(Tail(parts), sep)

\* str.replace(old, new) for a non-empty old: the occurrences are taken
\* leftmost first and do not overlap, as str.split takes them
Replace(s, old, new) == Join(Split(s, old), new)

DigitChar(d) == <<"0","1","2","3","4","5","6","7","8","9">>[d + 1]

RECURSIVE ToStr(_)
\* str(n) of a non-negative int, as an f-string formats it
ToStr(n) == IF n < 10 THEN <<DigitChar(n)>> ELSE ToStr(n \div 10) \o <<DigitChar(n % 10)>>

\* ------------------------------------------------------------------------
\* Mermaid blocks (lines 13-23)
\* ------------------------------------------------------------------------

\* r'BT BT BT mermaid\n[\s\S]*?BT BT BT': the lazy body stops at the first
\* three backquotes after the opening line
ReMermaid(s, i) ==
  IF At(s, i, <<BT,BT,BT,"m","e","r","m","a","i","d","\n">>)
  THEN LET j == Find(s, i + 11, <<BT,BT,BT>>)
       IN  IF j = 0 THEN 0 ELSE j + 3
  ELSE 0

\* the f-string replace_mermaid returns for the counter value n
FigureFragment(n) ==
  <<"<","f","i","g","u","r","e",">","\n","<","i","m","g"," ","s","r","c","=","\"","d",
    "i","a","g","r","a","m","s","/","d","i","a","g","r","a","m">> \o ToStr(n) \o <<".","p","n","g","\""," ","a","l","t","=","\"","D","i","a","g","r","a","m"," ">>
  \o ToStr(n) \o <<"\"",">","\n","<","f","i","g","c","a","p","t","i","o","n",">","F","i","g","u","r","e"," ">> \o ToStr(n) \o <<"<","/","f","i","g","c","a","p","t","i","o","n",">","\n","<","/","f","i","g","u","r","e",">">>

\* the start of the next mermaid match at or after i, 0 when none
NextMermaid(s, i) ==
  LET c == {j \in i..Len(s) : ReMermaid(s, j) > 0}
  IN  IF c = {} THEN 0 ELSE Min(c)

\* ------------------------------------------------------------------------
\* md_to_html (lines 26-116): the patterns
\* ------------------------------------------------------------------------

\* r'^<marker>(.+)$' with re.MULTILINE, marker one of '# ', '## ', '### ':
\* the greedy .+ takes the rest of the line, which must not be empty
ReHeading(s, i, marker) ==
  IF AtLineStart(s, i) /\ At(s, i, marker) /\ LineEnd(s, i + Len(marker)) > i + Len(marker)
  THEN LineEnd(s, i + Len(marker))
  ELSE 0

\* r'<hN>\1</hN>'
HeadingRepl(s, i, e, marker, level) ==
  <<"<", "h", level, ">">> \o Slice(s, i + Len(marker), e) \o <<"<", "/", "h", level, ">">>

\* r'^# (.+)$'
ReH1(s, i) == ReHeading(s, i, <<"#"," ">>)

\* r'^## (.+)$'
ReH2(s, i) == ReHeading(s, i, <<"#","#"," ">>)

\* r'^### (.+)$'
ReH3(s, i) == ReHeading(s, i, <<"#","#","#"," ">>)

\* the text str.replace puts in the place of '</h1>\n\n'
MetaBlock ==
  <<"<","/","h","1",">","\n","<","d","i","v"," ","c","l","a","s","s","=","\"","m","e",
    "t","a","\"",">","J","a","n","u","a","r","y"," ","2","0","2","6","<","/","d","i",
    "v",">","\n","<","d","i","v"," ","c","l","a","s","s","=","\"","a","b","s","t","r",
    "a","c","t","\"",">","\n","<","d","i","v"," ","c","l","a","s","s","=","\"","a","b",
    "s","t","r","a","c","t","-","t","i","t","l","e","\"",">","A","b","s","t","r","a",
    "c","t","<","/","d","i","v",">","\n">>
  \o <<"T","h","i","s"," ","d","o","c","u","m","e","n","t"," ","e","x","a","m","i","n",
       "e","s"," ","h","o","w"," ","t","h","e"," ","w","r","a","p","p","e","r"," ","a",
       "r","o","u","n","d"," ","a"," ","l","a","n","g","u","a","g","e"," ","m","o","d",
       "e","l"," ","a","f","f","e","c","t","s"," ","c","l","i","n","i","c","a","l"," ",
       "d","o","c","u","m","e","n","t","a","t","i","o","n"," ","o","u","t","p","u","t",
       "."," ">>
  \o <<"W","e"," ","p","r","o","c","e","s","s","e","d"," ","t","h","e"," ","s","a","m",
       "e"," ","p","s","y","c","h","i","a","t","r","i","c"," ","c","a","s","e"," ","t",
       "h","r","o","u","g","h"," ","C","h","a","t","G","P","T"," ","a","n","d"," ","t",
       "h","r","o","u","g","h"," ","P","s","y","c","h"," ","I","n","t","a","k","e"," ",
       "B","r","i","e","f","."," ">>
  \o <<"B","o","t","h"," ","u","s","e"," ","G","P","T","-","5",".","2","."," ","T","h",
       "e"," ","d","i","f","f","e","r","e","n","c","e"," ","i","s"," ","i","n"," ","h",
       "o","w"," ","t","h","e"," ","i","n","t","e","r","a","c","t","i","o","n"," ","g",
       "e","t","s"," ","s","t","r","u","c","t","u","r","e","d",".","\n","<","/","d","i",
       "v",">","\n">>

\* r'^---+$' with re.MULTILINE: a whole line of three or more hyphens
ReHr(s, i) ==
  IF AtLineStart(s, i) /\ At(s, i, <<"-","-","-">>) /\ SkipWhile(s, i, {"-"}) = LineEnd(s, i)
  THEN LineEnd(s, i)
  ELSE 0

\* the end of the opening line of r'BT BT BT\w*\n' at i (the position of its \n), 0 when none
FenceOpen(s, i) ==
  IF At(s, i, <<BT,BT,BT>>)
  THEN LET w == SkipWhile(s, i + 3, WordChars)
       IN  IF w <= Len(s) /\ s[w] = NL THEN w ELSE 0
  ELSE 0

\* r'BT BT BT\w*\n([\s\S]*?)BT BT BT': the lazy group ends at the first three backquotes
ReCodeBlock(s, i) ==
  LET w == FenceOpen(s, i)
  IN  IF w = 0 THEN 0
      ELSE LET j == Find(s, w + 1, <<BT,BT,BT>>)
           IN  IF j = 0 THEN 0 ELSE j + 3

\* code.replace('<', '&lt;').replace('>', '&gt;')
EscapeAngles(code) == Replace(Replace(code, <<"<">>, <<"&","l","t",";">>), <<">">>, <<"&","g","t",";">>)

\* format_code_block (lines 47-50)
format_code_block(s, i, e) ==
  LET code == Slice(s, FenceOpen(s, i) + 1, e - 3)
  IN  <<"<","p","r","e",">","<","c","o","d","e",">">> \o EscapeAngles(code) \o <<"<","/","c","o","d","e",">","<","/","p","r","e",">">>

\* r'BT([^BT]+)BT'
ReInlineCode(s, i) ==
  IF i <= Len(s) /\ s[i] = BT
  THEN LET j == SkipUntil(s, i + 1, {BT})
       IN  IF j <= Len(s) /\ j > i + 1 THEN j + 1 ELSE 0
  ELSE 0

InlineCodeRepl(s, i, e) == <<"<","c","o","d","e",">">> \o Slice(s, i + 1, e - 1) \o <<"<","/","c","o","d","e",">">>

\* r'\*\*([^*]+)\*\*': the group holds no asterisk, so it ends at the next one
ReBold(s, i) ==
  IF At(s, i, <<"*","*">>)
  THEN LET j == SkipUntil(s, i + 2, {"*"})
       IN  IF j > i + 2 /\ At(s, j, <<"*","*">>) THEN j + 2 ELSE 0
  ELSE 0

BoldRepl(s, i, e) == <<"<","s","t","r","o","n","g",">">> \o Slice(s, i + 2, e - 2) \o <<"<","/","s","t","r","o","n","g",">">>

\* r'\*([^*]+)\*'
ReItalic(s, i) ==
  IF i <= Len(s) /\ s[i] = "*"
  THEN LET j == SkipUntil(s, i + 1, {"*"})
       IN  IF j <= Len(s) /\ j > i + 1 THEN j + 1 ELSE 0
  ELSE 0

ItalicRepl(s, i, e) == <<"<","e","m",">">> \o Slice(s, i + 1, e - 1) \o <<"<","/","e","m",">">>

\* the position of the ']' of r'!\[([^\]]*)\]\(' at i, 0 when none
ImageAltEnd(s, i) ==
  IF At(s, i, <<"!","[">>)
  THEN LET j == SkipUntil(s, i + 2, {"]"})
       IN  IF At(s, j, <<"]","(">>) THEN j ELSE 0
  ELSE 0

\* r'!\[([^\]]*)\]\(([^)]+)\)'
ReImage(s, i) ==
  LET j == ImageAltEnd(s, i)
  IN  IF j = 0 THEN 0
      ELSE LET k == SkipUntil(s, j + 2, {")"})
           IN  IF k <= Len(s) /\ k > j + 2 THEN k + 1 ELSE 0

\* r'<figure><img src="\2" alt="\1"><figcaption>\1</figcaption></figure>'
ImageRepl(s, i, e) ==
  LET j == ImageAltEnd(s, i)
      alt == Slice(s, i + 2, j)
      path == Slice(s, j + 2, e - 1)
  IN  <<"<","f","i","g","u","r","e",">","<","i","m","g"," ","s","r","c","=","\"">> \o path \o <<"\""," ","a","l","t","=","\"">> \o alt \o <<"\"",">","<","f","i","g","c","a","p","t","i","o","n",">">>
      \o alt \o <<"<","/","f","i","g","c","a","p","t","i","o","n",">","<","/","f","i","g","u","r","e",">">>

\* one repetition of the group of r'(\|.+\|[\n])+' at i: a '|', at least one
\* character, and a '|' that is the last character of a line ended by \n
TableRow(s, i) ==
  IF i <= Len(s) /\ s[i] = "|"
  THEN LET n == LineEnd(s, i)
       IN  IF n <= Len(s) /\ n - 1 >= i + 2 /\ s[n - 1] = "|" THEN n + 1 ELSE 0
  ELSE 0

RECURSIVE TableRows(_, _)
\* the greedy repetition: rows are taken for as long as one follows
TableRows(s, e) == IF TableRow(s, e) > 0 THEN TableRows(s, TableRow(s, e)) ELSE e

\* r'(\|.+\|[\n])+'
ReTable(s, i) == IF TableRow(s, i) > 0 THEN TableRows(s, TableRow(s, i)) ELSE 0

\* [c.strip() for c in line.split('|')[1:-1]]
Cells(line) ==
  LET parts == Split(line, <<"|">>)
      inner == SubSeq(parts, 2, Len(parts) - 1)
  IN  [k \in 1..Len(inner) |-> Strip(inner[k])]

RECURSIVE CellsHtml(_, _)
\* ''.join(f'<{tag}>{c}</{tag}>' for c in cells)
CellsHtml(cells, tag) ==
  IF cells = <<>> THEN <<>>
  ELSE <<"<">> \o tag \o <<">">> \o cells[1] \o <<"<", "/">> \o tag \o <<">">>
       \o CellsHtml(Tail(cells), tag)

RECURSIVE TableRowsHtml(_, _)
\* the loop of format_table from line number i (1-based) on
TableRowsHtml(lines, i) ==
  IF i > Len(lines) THEN <<>>
  ELSE IF Find(lines[i], 1, <<"-","-","-">>) > 0 THEN TableRowsHtml(lines, i + 1)
  ELSE <<"<","t","r",">">> \o CellsHtml(Cells(lines[i]), IF i = 1 THEN <<"t","h">> ELSE <<"t","d">>)
       \o <<"<","/","t","r",">","\n">> \o TableRowsHtml(lines, i + 1)

\* format_table (lines 66-77)
format_table(s, i, e) ==
  LET lines == Split(Strip(Slice(s, i, e)), <<NL>>)
  IN  <<"<","t","a","b","l","e",">","\n">> \o TableRowsHtml(lines, 1) \o <<"<","/","t","a","b","l","e",">">>

\* r'\s+.+[\n]?' from m, the position after a list marker: \s+ gives back
\* white space until a character other than \n follows it, .+ takes the rest of
\* that line and [\n]? the line break when there is one; 0 when none
ItemRest(s, m) ==
  LET b == SkipWhile(s, m, WhiteSpace)
      c == {p \in (m + 1)..b : p <= Len(s) /\ s[p] # NL}
  IN  IF c = {} THEN 0
      ELSE LET n == LineEnd(s, Max(c))
           IN  IF n <= Len(s) THEN n + 1 ELSE n

\* the position after the marker of r'^[\s]*[-*]' at i, 0 when none
BulletMarker(s, i) ==
  LET a == SkipWhile(s, i, WhiteSpace)
  IN  IF a <= Len(s) /\ s[a] \in {"-", "*"} THEN a + 1 ELSE 0

\* the position after the marker of r'^[\s]*\d+\.' at i, 0 when none
NumberMarker(s, i) ==
  LET a == SkipWhile(s, i, WhiteSpace)
      d == SkipWhile(s, a, Digits)
  IN  IF d > a /\ d <= Len(s) /\ s[d] = "." THEN d + 1 ELSE 0

\* one repetition of the group of r'(^[\s]*[-*]\s+.+[\n]?)+' at i
BulletItem(s, i) ==
  IF i <= Len(s) /\ AtLineStart(s, i) /\ BulletMarker(s, i) > 0
  THEN ItemRest(s, BulletMarker(s, i))
  ELSE 0

\* one repetition of the group of r'(^[\s]*\d+\.\s+.+[\n]?)+' at i
NumberItem(s, i) ==
  IF i <= Len(s) /\ AtLineStart(s, i) /\ NumberMarker(s, i) > 0
  THEN ItemRest(s, NumberMarker(s, i))
  ELSE 0

RECURSIVE BulletItems(_, _)
BulletItems(s, e) == IF BulletItem(s, e) > 0 THEN BulletItems(s, BulletItem(s, e)) ELSE e

RECURSIVE NumberItems(_, _)
NumberItems(s, e) == IF NumberItem(s, e) > 0 THEN NumberItems(s, NumberItem(s, e)) ELSE e

\* r'(^[\s]*[-*]\s+.+[\n]?)+' with re.MULTILINE
ReList(s, i) == IF BulletItem(s, i) > 0 THEN BulletItems(s, BulletItem(s, i)) ELSE 0

\* r'(^[\s]*\d+\.\s+.+[\n]?)+' with re.MULTILINE
ReOl(s, i) == IF NumberItem(s, i) > 0 THEN NumberItems(s, NumberItem(s, i)) ELSE 0

\* re.sub(r'^[\s]*[-*]\s*', '', item)
StripBullet(item) ==
  LET m == BulletMarker(item, 1)
  IN  IF m = 0 THEN item ELSE Slice(item, SkipWhile(item, m, WhiteSpace), Len(item) + 1)

\* re.sub(r'^[\s]*\d+\.\s*', '', item)
StripNumber(item) ==
  LET m == NumberMarker(item, 1)
  IN  IF m = 0 THEN item ELSE Slice(item, SkipWhile(item, m, WhiteSpace), Len(item) + 1)

RECURSIVE BulletItemsHtml(_)
\* the loop of format_list
BulletItemsHtml(items) ==
  IF items = <<>> THEN <<>>
  ELSE <<"<","l","i",">">> \o StripBullet(items[1]) \o <<"<","/","l","i",">","\n">> \o BulletItemsHtml(Tail(items))

RECURSIVE NumberItemsHtml(_)
\* the loop of format_ol
NumberItemsHtml(items) ==
  IF items = <<>> THEN <<>>
  ELSE <<"<","l","i",">">> \o StripNumber(items[1]) \o <<"<","/","l","i",">","\n">> \o NumberItemsHtml(Tail(items))

\* format_list (lines 81-88)
format_list(s, i, e) ==
  <<"<","u","l",">","\n">> \o BulletItemsHtml(Split(Strip(Slice(s, i, e)), <<NL>>)) \o <<"<","/","u","l",">">>

\* format_ol (lines 92-99)
format_ol(s, i, e) ==
  <<"<","o","l",">","\n">> \o NumberItemsHtml(Split(Strip(Slice(s, i, e)), <<NL>>)) \o <<"<","/","o","l",">">>

\* the paragraph loop wrapping the element as it stands, not its stripped text
WrapParagraphUnstripped(par) ==
  LET p == Strip(par)
  IN  IF p # <<>> /\ p[1] # "<" THEN <<"<","p",">">> \o par \o <<"<","/","p",">">> ELSE par

\* the body of the paragraph loop (lines 105-107) for one element of the split
WrapParagraph(par) ==
  LET p == Strip(par)
  IN  IF p # <<>> /\ p[1] # "<" THEN <<"<","p",">">> \o p \o <<"<","/","p",">">> ELSE par

\* r'<p>\s*</p>'
ReEmptyP(s, i) ==
  IF At(s, i, <<"<","p",">">>) /\ At(s, SkipWhile(s, i + 3, WhiteSpace), <<"<","/","p",">">>)
  THEN SkipWhile(s, i + 3, WhiteSpace) + 4
  ELSE 0

EmptyRepl(s, i, e) == <<>>

\* the length of the alternative of (<h\d|<hr|<figure|<table|<ul|<ol|<pre) at a, 0 when none
BlockOpenLen(s, a) ==
  IF At(s, a, <<"<","h">>) /\ a + 2 <= Len(s) /\ s[a + 2] \in Digits THEN 3
  ELSE IF At(s, a, <<"<","h","r">>) THEN 3
  ELSE IF At(s, a, <<"<","f","i","g","u","r","e">>) THEN 7
  ELSE IF At(s, a, <<"<","t","a","b","l","e">>) THEN 6
  ELSE IF At(s, a, <<"<","u","l">>) THEN 3
  ELSE IF At(s, a, <<"<","o","l">>) THEN 3
  ELSE IF At(s, a, <<"<","p","r","e">>) THEN 4
  ELSE 0

\* r'<p>\s*(<h\d|<hr|<figure|<table|<ul|<ol|<pre)'
ReOpenBeforeBlock(s, i) ==
  IF At(s, i, <<"<","p",">">>) /\ BlockOpenLen(s, SkipWhile(s, i + 3, WhiteSpace)) > 0
  THEN LET a == SkipWhile(s, i + 3, WhiteSpace) IN a + BlockOpenLen(s, a)
  ELSE 0

\* r'\1' of the pattern above
OpenBeforeBlockRepl(s, i, e) ==
  LET a == SkipWhile(s, i + 3, WhiteSpace) IN Slice(s, a, e)

\* the length of the alternative of (</h\d>|</table>|</ul>|</ol>|</pre>|</figure>) at i, 0 when none
BlockCloseLen(s, i) ==
  IF At(s, i, <<"<","/","h">>) /\ i + 4 <= Len(s) /\ s[i + 3] \in Digits /\ s[i + 4] = ">" THEN 5
  ELSE IF At(s, i, <<"<","/","t","a","b","l","e",">">>) THEN 8
  ELSE IF At(s, i, <<"<","/","u","l",">">>) THEN 5
  ELSE IF At(s, i, <<"<","/","o","l",">">>) THEN 5
  ELSE IF At(s, i, <<"<","/","p","r","e",">">>) THEN 6
  ELSE IF At(s, i, <<"<","/","f","i","g","u","r","e",">">>) THEN 9
  ELSE 0

\* r'(</h\d>|</table>|</ul>|</ol>|</pre>|</figure>)\s*</p>'
ReCloseAfterBlock(s, i) ==
  IF BlockCloseLen(s, i) > 0
     /\ At(s, SkipWhile(s, i + BlockCloseLen(s, i), WhiteSpace), <<"<","/","p",">">>)
  THEN SkipWhile(s, i + BlockCloseLen(s, i), WhiteSpace) + 4
  ELSE 0

\* r'\1' of the pattern above
CloseAfterBlockRepl(s, i, e) == Slice(s, i, i + BlockCloseLen(s, i))

\* ------------------------------------------------------------------------
\* md_to_html (lines 26-116): the passes, one per statement
\* ------------------------------------------------------------------------

H1Repl(s, i, e) == HeadingRepl(s, i, e, <<"#"," ">>, "1")

H2Repl(s, i, e) == HeadingRepl(s, i, e, <<"#","#"," ">>, "2")

H3Repl(s, i, e) == HeadingRepl(s, i, e, <<"#","#","#"," ">>, "3")

HrRepl(s, i, e) == <<"<","h","r",">">>

\* re.sub(pattern, repl, s), the pattern and the replacement given by what they
\* do at each position of s: end[i] is the end of the pattern's match at i (0:
\* none) and repl[i] the replacement of that match.  The matches are taken
\* leftmost first and do not overlap; no pattern here matches the empty string.
ReSub(s, end, repl) ==
  LET f[i \in 1..(Len(s) + 1)] ==
        LET c == {j \in i..Len(s) : end[j] > 0}
        IN  IF c = {} THEN Slice(s, i, Len(s) + 1)
            ELSE Slice(s, i, Min(c)) \o repl[Min(c)] \o f[end[Min(c)]]
  IN  f[1]

\* line 28
TitleSub(t) ==
  ReSub(t, [i \in 1..Len(t) |-> ReH1(t, i)],
           [i \in 1..Len(t) |-> H1Repl(t, i, ReH1(t, i))])

\* lines 31-37
MetaSub(t) == Replace(t, <<"<","/","h","1",">","\n","\n">>, MetaBlock)

\* line 40
H2Sub(t) ==
  ReSub(t, [i \in 1..Len(t) |-> ReH2(t, i)],
           [i \in 1..Len(t) |-> H2Repl(t, i, ReH2(t, i))])

\* line 41
H3Sub(t) ==
  ReSub(t, [i \in 1..Len(t) |-> ReH3(t, i)],
           [i \in 1..Len(t) |-> H3Repl(t, i, ReH3(t, i))])

\* line 44
HrSub(t) ==
  ReSub(t, [i \in 1..Len(t) |-> ReHr(t, i)],
           [i \in 1..Len(t) |-> HrRepl(t, i, ReHr(t, i))])

\* line 51
CodeBlockSub(t) ==
  ReSub(t, [i \in 1..Len(t) |-> ReCodeBlock(t, i)],
           [i \in 1..Len(t) |-> format_code_block(t, i, ReCodeBlock(t, i))])

\* line 54
InlineCodeSub(t) ==
  ReSub(t, [i \in 1..Len(t) |-> ReInlineCode(t, i)],
           [i \in 1..Len(t) |-> InlineCodeRepl(t, i, ReInlineCode(t, i))])

\* line 57
BoldSub(t) ==
  ReSub(t, [i \in 1..Len(t) |-> ReBold(t, i)],
           [i \in 1..Len(t) |-> BoldRepl(t, i, ReBold(t, i))])

\* line 60
ItalicSub(t) ==
  ReSub(t, [i \in 1..Len(t) |-> ReItalic(t, i)],
           [i \in 1..Len(t) |-> ItalicRepl(t, i, ReItalic(t, i))])

\* line 63
ImageSub(t) ==
  ReSub(t, [i \in 1..Len(t) |-> ReImage(t, i)],
           [i \in 1..Len(t) |-> ImageRepl(t, i, ReImage(t, i))])

\* line 78
TableSub(t) ==
  ReSub(t, [i \in 1..Len(t) |-> ReTable(t, i)],
           [i \in 1..Len(t) |-> format_table(t, i, ReTable(t, i))])

\* line 89
ListSub(t) ==
  ReSub(t, [i \in 1..Len(t) |-> ReList(t, i)],
           [i \in 1..Len(t) |-> format_list(t, i, ReList(t, i))])

\* line 100
OlSub(t) ==
  ReSub(t, [i \in 1..Len(t) |-> ReOl(t, i)],
           [i \in 1..Len(t) |-> format_ol(t, i, ReOl(t, i))])

\* lines 103-108
ParagraphPass(t) ==
  LET paragraphs == Split(t, <<NL, NL>>)
  IN  Join([k \in 1..Len(paragraphs) |-> WrapParagraph(paragraphs[k])], <<NL, NL>>)

\* line 111
Cleanup1(t) == Replace(t, <<"\n","<","/","p",">">>, <<"<","/","p",">">>)

\* line 112
Cleanup2(t) ==
  ReSub(t, [i \in 1..Len(t) |-> ReEmptyP(t, i)],
           [i \in 1..Len(t) |-> EmptyRepl(t, i, ReEmptyP(t, i))])

\* line 113
Cleanup3(t) ==
  ReSub(t, [i \in 1..Len(t) |-> ReOpenBeforeBlock(t, i)],
           [i \in 1..Len(t) |-> OpenBeforeBlockRepl(t, i, ReOpenBeforeBlock(t, i))])

\* line 114
Cleanup4(t) ==
  ReSub(t, [i \in 1..Len(t) |-> ReCloseAfterBlock(t, i)],
           [i \in 1..Len(t) |-> CloseAfterBlockRepl(t, i, ReCloseAfterBlock(t, i))])

\* md_to_html as one function: the passes in the order of the source
md_to_html(t) ==
  Cleanup4(Cleanup3(Cleanup2(Cleanup1(ParagraphPass(OlSub(ListSub(TableSub(ImageSub(
    ItalicSub(BoldSub(InlineCodeSub(CodeBlockSub(HrSub(H3Sub(H2Sub(MetaSub(TitleSub(t))))))))))))))))))

RECURSIVE MermaidFrom(_, _, _)
\* re.sub(..., replace_mermaid, s) from position i with the counter at n:
\* <<the text produced, the counter afterwards>>
MermaidFrom(s, i, n) ==
  LET j == NextMermaid(s, i)
  IN  IF j = 0 THEN <<Slice(s, i, Len(s) + 1), n>>
      ELSE LET r == MermaidFrom(s, ReMermaid(s, j), n + 1)
           IN  <<Slice(s, i, j) \o FigureFragment(n + 1) \o r[1], r[2]>>

\* ------------------------------------------------------------------------
\* The documents the script is run on
\* ------------------------------------------------------------------------

\* the most blocks of a document of Spec
MaxBlocks == 2

\* the most blocks of a document of SpecMermaid
MaxMermaidBlocks == 3

\* the most mermaid blocks in a row in a document of SpecMermaid
MaxDiagrams == 10

\* the most blocks of a document of SpecRender
MaxRenderBlocks == 2

\* the most lines of a document of SpecPlain
MaxLines == 5

RECURSIVE DocFrom(_, _, _)
\* the blocks bs[i..] with the separator ss[j] after block j
DocFrom(bs, ss, i) ==
  IF i > Len(bs) THEN <<>>
  ELSE bs[i] \o (IF i < Len(bs) THEN ss[i] ELSE <<>>) \o DocFrom(bs, ss, i + 1)

\* every document of 1..n blocks of B, one line break or a blank line between
\* two blocks, ended with or without a final line break
DocsOf(B, n) ==
  UNION {{DocFrom(bs, ss, 1) \o fin :
            bs \in [1..k -> B], ss \in [1..(k - 1) -> {<<NL>>, <<NL, NL>>}],
            fin \in {<<>>, <<NL>>}} : k \in 1..n}

MermaidBlock == <<BT,BT,BT,"m","e","r","m","a","i","d","\n","g","r","a","p","h"," ","T","D","\n",BT,BT,BT>>

\* a document as the script is written for: a title, text, a diagram, a list
SampleDoc == <<"#"," ","T","i","t","l","e","\n","\n","I","n","t","r","o",".","\n","\n",BT,BT,BT,
               "m","e","r","m","a","i","d","\n","g","r","a","p","h"," ","T","D","\n",BT,BT,BT,
               "\n","\n","-"," ","a","\n","-"," ","b","\n">>

MarkdownBlocks ==
  {<<"#"," ","T","i","t","l","e">>, <<"#","#"," ","H","e","a","d">>, <<"p","l","a","i","n"," ","t","e","x","t">>, <<"-"," ","a","\n","-"," ","b">>, <<"*"," ","a","\n","*"," ","b">>, <<"1","."," ","x">>,
   <<"|"," ","h"," ","|"," ","g"," ","|","\n","|","-","-","-","|","-","-","-","|","\n",
     "|"," ","1"," ","|"," ","2"," ","|">>, <<"*","*","b","o","l","d"," ","*","a","n","d"," ","i","t","a","l","i","c","*"," ","t","e","x","t","*","*">>,
   <<BT,BT,BT,"\n","a"," ",BT,"b",BT," ","c","\n",BT,BT,BT>>, <<"#","#","#"," ","S","u","b">>, <<"-","-","-">>, <<"!","[","f","i","g","]","(","a",".","p","n","g",")">>, MermaidBlock}

MarkdownDocs == DocsOf(MarkdownBlocks, MaxBlocks) \cup {SampleDoc}

RECURSIVE Repeat(_, _, _)
\* sep.join([s] * n)
Repeat(s, n, sep) ==
  IF n = 0 THEN <<>> ELSE IF n = 1 THEN s ELSE s \o sep \o Repeat(s, n - 1, sep)

MermaidDocs ==
  DocsOf({MermaidBlock, <<"s","o","m","e"," ","t","e","x","t">>, <<BT,BT,BT,"p","y","\n","x"," ","="," ","1","\n",BT,BT,BT>>}, MaxMermaidBlocks)
  \cup {Repeat(<<BT,BT,BT,"m","e","r","m","a","i","d","\n",BT,BT,BT>>, n, <<NL>>) : n \in 0..MaxDiagrams}
  \cup {SampleDoc}

RenderDocs ==
  DocsOf({MermaidBlock, <<"#"," ","T","i","t","l","e">>, <<"p","l","a","i","n"," ","t","e","x","t">>}, MaxRenderBlocks) \cup {SampleDoc}

\* every document of at most MaxLines lines without markdown syntax
PlainLines == {<<>>, <<"a","b">>, <<" ">>, <<"<","c">>}

PlainDocs ==
  UNION {{Join(ls, <<NL>>) : ls \in [1..k -> PlainLines]} : k \in 0..MaxLines}
  \cup {SampleDoc}

\* str(e) of the exceptions the rendering step raises
ErrMsgs == {<<"N","o"," ","m","o","d","u","l","e"," ","n","a","m","e","d"," ","'","w","e","a",
              "s","y","p","r","i","n","t","'">>, <<"c","a","n","n","o","t"," ","l","o","a","d"," ","l","i","b","r","a","r","y">>}

\* os.path.getsize results
Sizes == {0, 1536, 2560}

\* ------------------------------------------------------------------------
\* The script, statement by statement
\* ------------------------------------------------------------------------

InitWith(docs) ==
  /\ pc = "read"
  /\ file \in docs
  /\ md_content = <<>>
  /\ diagram_count = 0
  /\ pos = 1
  /\ out = <<>>
  /\ text = <<>>
  /\ html_content = <<>>
  /\ html_doc = <<>>
  /\ html_written = FALSE
  /\ html_file = <<>>
  /\ pdf_written = FALSE
  /\ size = 0
  /\ stdout = <<>>
  /\ exc = <<>>
  /\ exit_code = -1

Init == InitWith(MarkdownDocs)

InitMermaid == InitWith(MermaidDocs)

InitPlain == InitWith(PlainDocs)

InitRender == InitWith(RenderDocs)

\* lines 10-11
ReadFile ==
  /\ pc = "read"
  /\ md_content' = file
  /\ pc' = "counter"
  /\ UNCHANGED <<file, diagram_count, pos, out, text, html_content, html_doc, html_written,
                 html_file, pdf_written, size, stdout, exc, exit_code>>

\* line 14, and the entry of re.sub of line 23
StartMermaid ==
  /\ pc = "counter"
  /\ diagram_count' = 0
  /\ pos' = 1
  /\ out' = <<>>
  /\ pc' = "mermaid"
  /\ UNCHANGED <<file, md_content, text, html_content, html_doc, html_written,
                 html_file, pdf_written, size, stdout, exc, exit_code>>

\* replace_mermaid formatting the counter before it is incremented
replace_mermaid_stale ==
  /\ pc = "mermaid"
  /\ NextMermaid(md_content, pos) > 0
  /\ LET j == NextMermaid(md_content, pos)
     IN  /\ diagram_count' = diagram_count + 1
         /\ out' = out \o Slice(md_content, pos, j) \o FigureFragment(diagram_count)
         /\ pos' = ReMermaid(md_content, j)
  /\ UNCHANGED <<pc, file, md_content, text, html_content, html_doc, html_written,
                 html_file, pdf_written, size, stdout, exc, exit_code>>

\* lines 15-21: re.sub of line 23 calls replace_mermaid on its next match
replace_mermaid ==
  /\ pc = "mermaid"
  /\ NextMermaid(md_content, pos) > 0
  /\ LET j == NextMermaid(md_content, pos)
     IN  /\ diagram_count' = diagram_count + 1
         /\ out' = out \o Slice(md_content, pos, j) \o FigureFragment(diagram_count')
         /\ pos' = ReMermaid(md_content, j)
  /\ UNCHANGED <<pc, file, md_content, text, html_content, html_doc, html_written,
                 html_file, pdf_written, size, stdout, exc, exit_code>>

\* line 23: no match is left, and the result is assigned to md_content
EndMermaid ==
  /\ pc = "mermaid"
  /\ NextMermaid(md_content, pos) = 0
  /\ md_content' = out \o Slice(md_content, pos, Len(md_content) + 1)
  /\ pc' = "call"
  /\ UNCHANGED <<file, diagram_count, pos, out, text, html_content, html_doc, html_written,
                 html_file, pdf_written, size, stdout, exc, exit_code>>

\* line 118: md_to_html(md_content) is entered
CallMdToHtml ==
  /\ pc = "call"
  /\ text' = md_content
  /\ pc' = "title"
  /\ UNCHANGED <<file, md_content, diagram_count, pos, out, html_content, html_doc,
                 html_written, html_file, pdf_written, size, stdout, exc, exit_code>>

\* one statement text = ...(text) of md_to_html
Pass(to, result) ==
  /\ text' = result
  /\ pc' = to
  /\ UNCHANGED <<file, md_content, diagram_count, pos, out, html_content, html_doc,
                 html_written, html_file, pdf_written, size, stdout, exc, exit_code>>

TitlePass ==
  /\ pc = "title"
  /\ Pass("meta", TitleSub(text))

MetaPass ==
  /\ pc = "meta"
  /\ Pass("h2", MetaSub(text))

H2Pass ==
  /\ pc = "h2"
  /\ Pass("h3", H2Sub(text))

H3Pass ==
  /\ pc = "h3"
  /\ Pass("hr", H3Sub(text))

HrPass ==
  /\ pc = "hr"
  /\ Pass("codeblock", HrSub(text))

CodeBlockPass ==
  /\ pc = "codeblock"
  /\ Pass("inlinecode", CodeBlockSub(text))

InlineCodePass ==
  /\ pc = "inlinecode"
  /\ Pass("bold", InlineCodeSub(text))

BoldPass ==
  /\ pc = "bold"
  /\ Pass("italic", BoldSub(text))

ItalicPass ==
  /\ pc = "italic"
  /\ Pass("image", ItalicSub(text))

ImagePass ==
  /\ pc = "image"
  /\ Pass("table", ImageSub(text))

TablePass ==
  /\ pc = "table"
  /\ Pass("list", TableSub(text))

ListPass ==
  /\ pc = "list"
  /\ Pass("ol", ListSub(text))

OlPass ==
  /\ pc = "ol"
  /\ Pass("paragraphs", OlSub(text))

ParagraphsPass ==
  /\ pc = "paragraphs"
  /\ Pass("cleanup1", ParagraphPass(text))

Cleanup1Pass ==
  /\ pc = "cleanup1"
  /\ Pass("cleanup2", Cleanup1(text))

Cleanup2Pass ==
  /\ pc = "cleanup2"
  /\ Pass("cleanup3", Cleanup2(text))

Cleanup3Pass ==
  /\ pc = "cleanup3"
  /\ Pass("cleanup4", Cleanup3(text))

Cleanup4Pass ==
  /\ pc = "cleanup4"
  /\ Pass("return", Cleanup4(text))

\* lines 116, 118: return text, assigned to html_content
ReturnHtml ==
  /\ pc = "return"
  /\ html_content' = text
  /\ pc' = "build"
  /\ UNCHANGED <<file, md_content, diagram_count, pos, out, text, html_doc,
                 html_written, html_file, pdf_written, size, stdout, exc, exit_code>>

\* the f-string of lines 121-131
HtmlDocument(content) ==
  <<"<","!","D","O","C","T","Y","P","E"," ","h","t","m","l",">","\n","<","h","t","m",
    "l"," ","l","a","n","g","=","\"","e","n","\"",">","\n","<","h","e","a","d",">","\n",
    " "," "," "," ","<","m","e","t","a"," ","c","h","a","r","s","e","t","=","\"","U",
    "T","F","-","8","\"",">","\n">>
  \o <<" "," "," "," ","<","t","i","t","l","e",">","S","t","r","u","c","t","u","r","e",
       "d"," ","H","a","r","n","e","s","s","e","s"," ","f","o","r"," ","C","l","i","n",
       "i","c","a","l"," ","A","I","<","/","t","i","t","l","e",">","\n">>
  \o <<" "," "," "," ","<","l","i","n","k"," ","r","e","l","=","\"","s","t","y","l","e",
       "s","h","e","e","t","\""," ","h","r","e","f","=","\"","a","c","a","d","e","m","i",
       "c","-","s","t","y","l","e",".","c","s","s","\"",">","\n","<","/","h","e","a","d",
       ">","\n","<","b","o","d","y",">","\n">>
  \o content \o <<"\n","<","/","b","o","d","y",">","\n","<","/","h","t","m","l",">">>

\* lines 121-131
BuildDocument ==
  /\ pc = "build"
  /\ html_doc' = HtmlDocument(html_content)
  /\ pc' = "write_html"
  /\ UNCHANGED <<file, md_content, diagram_count, pos, out, text, html_content,
                 html_written, html_file, pdf_written, size, stdout, exc, exit_code>>

\* lines 134-135
WriteHtml ==
  /\ pc = "write_html"
  /\ html_written' = TRUE
  /\ html_file' = html_doc
  /\ pc' = "print_html"
  /\ UNCHANGED <<file, md_content, diagram_count, pos, out, text, html_content,
                 html_doc, pdf_written, size, stdout, exc, exit_code>>

\* print(line)
PrintLine(line, to) ==
  /\ stdout' = Append(stdout, line)
  /\ pc' = to
  /\ UNCHANGED <<file, md_content, diagram_count, pos, out, text, html_content,
                 html_doc, html_written, html_file, pdf_written, size, exc, exit_code>>

\* line 137
PrintHtmlGenerated ==
  /\ pc = "print_html"
  /\ PrintLine(<<"H","T","M","L"," ","g","e","n","e","r","a","t","e","d",":"," ","a","c","a","d",
                 "e","m","i","c","-","o","u","t","p","u","t",".","h","t","m","l">>, "import")

\* a statement of the try block raises e: control goes to the except clause
Raise(e) ==
  /\ exc' = e
  /\ pc' = "except"
  /\ UNCHANGED <<file, md_content, diagram_count, pos, out, text, html_content,
                 html_doc, html_written, html_file, pdf_written, size, stdout, exit_code>>

\* a statement of the try block that changes nothing the script keeps
Skip(to) ==
  /\ pc' = to
  /\ UNCHANGED <<file, md_content, diagram_count, pos, out, text, html_content,
                 html_doc, html_written, html_file, pdf_written, size, stdout, exc, exit_code>>

\* lines 141-142: the imports succeed or raise
ImportRenderer ==
  /\ pc = "import"
  /\ \/ Skip("render")
     \/ \E e \in ErrMsgs : Raise(e)

\* lines 144-152: the renderer writes the PDF or raises
WritePdf ==
  /\ pc = "render"
  /\ \/ /\ pdf_written' = TRUE
        /\ pc' = "print_pdf"
        /\ UNCHANGED <<file, md_content, diagram_count, pos, out, text, html_content,
                       html_doc, html_written, html_file, size, stdout, exc, exit_code>>
     \/ \E e \in ErrMsgs : Raise(e)

\* line 154
PrintPdfGenerated ==
  /\ pc = "print_pdf"
  /\ PrintLine(<<"P","D","F"," ","g","e","n","e","r","a","t","e","d",":"," ","P","s","y","c","h",
                 "_","I","n","t","a","k","e","_","B","r","i","e","f","_","T","e","c","h","n","i",
                 "c","a","l","_","D","o","c","u","m","e","n","t","a","t","i","o","n",".","p","d",
                 "f">>, "getsize")

\* line 157: os.path.getsize gives a size or raises
GetSize ==
  /\ pc = "getsize"
  /\ \/ \E n \in Sizes :
          /\ size' = n
          /\ pc' = "print_size"
          /\ UNCHANGED <<file, md_content, diagram_count, pos, out, text, html_content,
                         html_doc, html_written, html_file, pdf_written, stdout, exc, exit_code>>
     \/ \E e \in ErrMsgs : Raise(e)

\* f'{n / 1024:.0f}': the quotient rounded to the nearest integer, a half to the even one
FormatKB(n) ==
  LET q == n \div 1024
      r == n % 1024
  IN  ToStr(IF r > 512 \/ (r = 512 /\ q % 2 = 1) THEN q + 1 ELSE q)

\* line 158
PrintSize ==
  /\ pc = "print_size"
  /\ PrintLine(<<"S","i","z","e",":"," ">> \o FormatKB(size) \o <<" ","K","B">>, "exit")

\* an except clause that prints and raises again: the script dies with status 1
ExceptHandlerReraise ==
  /\ pc = "except"
  /\ stdout' = Append(stdout, <<"P","D","F"," ","g","e","n","e","r","a","t","i","o","n"," ","e","r","r","o","r",":"," ">> \o exc)
  /\ exit_code' = 1
  /\ pc' = "done"
  /\ UNCHANGED <<file, md_content, diagram_count, pos, out, text, html_content,
                 html_doc, html_written, html_file, pdf_written, size, exc>>

\* lines 160-161: the exception is caught and printed
ExceptHandler ==
  /\ pc = "except"
  /\ PrintLine(<<"P","D","F"," ","g","e","n","e","r","a","t","i","o","n"," ","e","r","r","o","r",":"," ">> \o exc, "exit")

\* the end of the script: the interpreter exits with status 0
Exit ==
  /\ pc = "exit"
  /\ exit_code' = 0
  /\ pc' = "done"
  /\ UNCHANGED <<file, md_content, diagram_count, pos, out, text, html_content,
                 html_doc, html_written, html_file, pdf_written, size, stdout, exc>>

Next ==
  \/ ReadFile \/ StartMermaid \/ replace_mermaid \/ EndMermaid \/ CallMdToHtml
  \/ TitlePass \/ MetaPass \/ H2Pass \/ H3Pass \/ HrPass \/ CodeBlockPass
  \/ InlineCodePass \/ BoldPass \/ ItalicPass \/ ImagePass \/ TablePass \/ ListPass
  \/ OlPass \/ ParagraphsPass \/ Cleanup1Pass \/ Cleanup2Pass \/ Cleanup3Pass
  \/ Cleanup4Pass \/ ReturnHtml \/ BuildDocument \/ WriteHtml \/ PrintHtmlGenerated
  \/ ImportRenderer \/ WritePdf \/ PrintPdfGenerated \/ GetSize \/ PrintSize
  \/ ExceptHandler \/ Exit

Spec == Init /\ [][Next]_vars

SpecMermaid == InitMermaid /\ [][Next]_vars

SpecPlain == InitPlain /\ [][Next]_vars

SpecRender == InitRender /\ [][Next]_vars

\* ------------------------------------------------------------------------
\* Reading the output back: what the properties below are stated with
\* ------------------------------------------------------------------------

\* the positions of s where lit occurs
Occurrences(s, lit) == {i \in 1..Len(s) : At(s, i, lit)}

Count(s, lit) == Cardinality(Occurrences(s, lit))

Contains(s, lit) == Occurrences(s, lit) # {}

RECURSIVE Ascending(_)
\* the elements of a set of numbers in ascending order
Ascending(S) == IF S = {} THEN <<>> ELSE <<Min(S)>> \o Ascending(S \ {Min(S)})

DigitValue(c) ==
  CASE c = "0" -> 0 [] c = "1" -> 1 [] c = "2" -> 2 [] c = "3" -> 3 [] c = "4" -> 4
    [] c = "5" -> 5 [] c = "6" -> 6 [] c = "7" -> 7 [] c = "8" -> 8 [] c = "9" -> 9

RECURSIVE NatFrom(_, _, _)
\* the decimal number written at s[i..], acc the value of the digits read so far
NatFrom(s, i, acc) ==
  IF i <= Len(s) /\ s[i] \in Digits THEN NatFrom(s, i + 1, 10 * acc + DigitValue(s[i])) ELSE acc

\* the numbers written between each occurrence of open and the close that must
\* follow the digits, in document order (-1 where the digits or the close are missing)
NumbersBetween(s, open, close) ==
  LET ps == Ascending(Occurrences(s, open))
  IN  [k \in 1..Len(ps) |->
         LET a == ps[k] + Len(open)
             b == SkipWhile(s, a, Digits)
         IN  IF b > a /\ At(s, b, close) THEN NatFrom(s, a, 0) ELSE -1]

\* 1, 2, ..., k
Iota(k) == [i \in 1..k |-> i]

\* the fenced blocks opened by three backquotes and mermaid, each on a line of its own
MermaidOpenings(s) == {i \in 1..Len(s) : AtLineStart(s, i) /\ At(s, i, <<BT,BT,BT,"m","e","r","m","a","i","d","\n">>)}

\* ------------------------------------------------------------------------
\* C1
\* ------------------------------------------------------------------------

\* the image paths, alt texts and captions of the figures of s carry the numbers 1..k
FiguresNumbered(s, k) ==
  /\ NumbersBetween(s, <<"<","f","i","g","u","r","e",">","\n","<","i","m","g"," ","s","r","c","=","\"","d",
                         "i","a","g","r","a","m","s","/","d","i","a","g","r","a","m">>, <<".","p","n","g","\""," ","a","l","t","=","\"","D","i","a","g","r","a","m"," ">>) = Iota(k)
  /\ NumbersBetween(s, <<"<","f","i","g","c","a","p","t","i","o","n",">","F","i","g","u","r","e"," ">>, <<"<","/","f","i","g","c","a","p","t","i","o","n",">","\n","<","/","f","i","g","u","r","e",">">>) = Iota(k)

\* C1: the N-th mermaid block of the document becomes the figure diagramN.png
\* captioned Figure N.  The counter starts at 0, counts the figures produced so
\* far at every moment of the replacement, and ends at the number k of mermaid
\* blocks of the input, the output then holding the figures 1..k in order and no
\* mermaid block.
C1_MermaidNumbering ==
  /\ pc = "mermaid" => FiguresNumbered(out, diagram_count)
  /\ pc \notin {"read", "counter", "mermaid"} =>
       /\ diagram_count = Cardinality(MermaidOpenings(file))
       /\ FiguresNumbered(md_content, diagram_count)
       /\ MermaidOpenings(md_content) = {}

\* a run that replaced MaxDiagrams blocks, the last with a number of two digits
C1_Witness ==
  /\ pc = "call"
  /\ diagram_count = MaxDiagrams
  /\ Cardinality(MermaidOpenings(file)) = MaxDiagrams
  /\ Contains(md_content, <<"d","i","a","g","r","a","m","s","/","d","i","a","g","r","a","m">> \o ToStr(MaxDiagrams) \o <<".","p","n","g">>)

\* ------------------------------------------------------------------------
\* C2
\* ------------------------------------------------------------------------

\* the places of the try block and of its except clause
InTry == pc \in {"import", "render", "print_pdf", "getsize", "print_size", "except"}

\* C2: when the rendering step raises (the import, write_pdf or getsize), the
\* HTML file is already written in full and HTML generated already printed; the
\* exception is caught, PDF generation error and its message are printed last,
\* the script ends with status 0, and the file holds what the input alone
\* determines, as in a run where rendering succeeds.
C2_RenderFailureContained ==
  /\ InTry =>
       /\ html_written
       /\ html_file = HtmlDocument(html_content)
       /\ Len(stdout) >= 1
       /\ stdout[1] = <<"H","T","M","L"," ","g","e","n","e","r","a","t","e","d",":"," ","a","c","a","d",
                        "e","m","i","c","-","o","u","t","p","u","t",".","h","t","m","l">>
  /\ pc = "done" =>
       /\ html_written
       /\ html_file = HtmlDocument(md_to_html(MermaidFrom(file, 1, 0)[1]))
  /\ (pc = "done" /\ exc # <<>>) =>
       /\ exit_code = 0
       /\ stdout[1] = <<"H","T","M","L"," ","g","e","n","e","r","a","t","e","d",":"," ","a","c","a","d",
                        "e","m","i","c","-","o","u","t","p","u","t",".","h","t","m","l">>
       /\ stdout[Len(stdout)] = <<"P","D","F"," ","g","e","n","e","r","a","t","i","o","n"," ","e","r","r","o","r",":"," ">> \o exc
  /\ (pc = "done" /\ exc = <<>>) =>
       /\ exit_code = 0
       /\ pdf_written
       /\ Len(stdout) = 3

\* a run that ended after getsize raised: the PDF was written, the error printed
C2_Witness ==
  /\ pc = "done"
  /\ exc \in ErrMsgs
  /\ pdf_written
  /\ Len(stdout) = 3
  /\ html_written
  /\ Len(html_content) > 0

\* ------------------------------------------------------------------------
\* C6
\* ------------------------------------------------------------------------

\* a line that starts, after optional white space, with digits and a period
NumberedLine(s, i) ==
  /\ AtLineStart(s, i)
  /\ LET a == SkipWhile(s, i, WhiteSpace \ {NL})
         d == SkipWhile(s, a, Digits)
     IN  d > a /\ d <= Len(s) /\ s[d] = "."

\* no markdown syntax: none of # - * backquote | ! [ and no numbered line
NoMarkdown(s) ==
  /\ \A i \in 1..Len(s) : s[i] \notin {"#", "-", "*", BT, "|", "!", "["}
  /\ \A i \in 1..Len(s) : ~NumberedLine(s, i)

\* the chunks of s: the texts between its blank-line boundaries
Chunks(s) == Split(s, <<NL, NL>>)

NonBlank(chunk) == \E i \in 1..Len(chunk) : chunk[i] \notin WhiteSpace

\* every non-blank chunk of s in one p element, its text as it is but for the
\* white space around it, the blank chunks and the boundaries as they are
EachChunkWrapped(s) ==
  LET cs == Chunks(s)
  IN  Join([k \in 1..Len(cs) |->
              IF NonBlank(cs[k]) THEN <<"<","p",">">> \o Strip(cs[k]) \o <<"<","/","p",">">> ELSE cs[k]],
           <<NL, NL>>)

NonBlankChunks(s) == Cardinality({k \in 1..Len(Chunks(s)) : NonBlank(Chunks(s)[k])})

\* the output is the input with each non-blank chunk in one p element, and
\* holds as many p elements as the input has non-blank chunks and no other tag
PlainlyWrapped ==
  /\ html_content = EachChunkWrapped(file)
  /\ Count(html_content, <<"<","p",">">>) = NonBlankChunks(file)
  /\ Count(html_content, <<"<","/","p",">">>) = NonBlankChunks(file)
  /\ Count(html_content, <<"<">>) = 2 * NonBlankChunks(file)

\* C6 as stated: every input without markdown syntax comes out with each
\* non-blank chunk wrapped in exactly one p element and nothing else produced.
C6_PlainTextWrapped == (pc = "build" /\ NoMarkdown(file)) => PlainlyWrapped

\* C6 as amended: every input without markdown syntax and without the
\* character < comes out with each non-blank chunk wrapped in exactly one p
\* element, its text unchanged but for the surrounding white space, and
\* nothing else produced.
C6_PlainTextWrappedNoAngle ==
  (pc = "build" /\ NoMarkdown(file) /\ ~Contains(file, <<"<">>)) => PlainlyWrapped

\* a converted plain document of two non-blank chunks and a blank one
C6_Witness ==
  /\ pc = "build"
  /\ NoMarkdown(file)
  /\ ~Contains(file, <<"<">>)
  /\ NonBlankChunks(file) = 2
  /\ Len(Chunks(file)) = 3
  /\ Count(html_content, <<"<","p",">">>) = 2

\* ------------------------------------------------------------------------
\* C3
\* ------------------------------------------------------------------------

\* C3: md_to_html of **bold *and italic* text** gives one strong element from
\* bold to text with an em element around and italic inside it, and leaves no
\* asterisk in the output.
C3_BoldBeforeItalic ==
  (pc = "build" /\ md_content = <<"*","*","b","o","l","d"," ","*","a","n","d"," ","i","t","a","l","i","c","*"," ","t","e","x","t","*","*">>) =>
    /\ Contains(html_content, <<"<","s","t","r","o","n","g",">","b","o","l","d"," ","<","e","m",">","a","n","d",
                                " ","i","t","a","l","i","c","<","/","e","m",">"," ","t","e","x","t","<","/","s",
                                "t","r","o","n","g",">">>)
    /\ Count(html_content, <<"<","s","t","r","o","n","g",">">>) = 1
    /\ ~Contains(html_content, <<"*">>)

\* ------------------------------------------------------------------------
\* C4
\* ------------------------------------------------------------------------

\* a header row, a separator row and one data row of two columns
TableBlock == <<"|"," ","h"," ","|"," ","g"," ","|","\n","|","-","-","-","|","-","-","-","|","\n",
                "|"," ","1"," ","|"," ","2"," ","|">>

\* the table element the block stands for
TableElement ==
  <<"<","t","a","b","l","e",">","\n","<","t","r",">","<","t","h",">","h","<","/","t",
    "h",">","<","t","h",">","g","<","/","t","h",">","<","/","t","r",">","\n","<","t",
    "r",">","<","t","d",">","1","<","/","t","d",">","<","t","d",">","2","<","/","t",
    "d",">","<","/","t","r",">","\n","<","/","t","a","b","l","e",">">>

\* C4: a table block (header, separator, data rows) becomes exactly one table
\* element of one th row and one td row per data row, no row dropped or left as
\* raw pipe text, wherever the block stands, also as the last lines of the
\* document with or without a final line break.
C4_TableComplete ==
  (pc = "build" /\ Count(file, TableBlock) = 1) =>
    /\ Count(html_content, TableElement) = 1
    /\ Count(html_content, <<"<","t","a","b","l","e",">">>) = 1
    /\ ~Contains(html_content, <<"|">>)

\* ------------------------------------------------------------------------
\* C5
\* ------------------------------------------------------------------------

\* the level-1 heading lines of s
TitleLines(s) == {i \in 1..Len(s) : ReH1(s, i) > 0}

\* C5: in a document with at least one level-1 heading the first one becomes an
\* h1 element with the metadata line and the abstract block right after its
\* closing tag, and that block is in the output exactly once, whatever follows
\* the heading line and however many level-1 headings there are.
C5_MetaOnceAfterTitle ==
  (pc = "build" /\ TitleLines(md_content) # {}) =>
    /\ Count(html_content, <<"<","d","i","v"," ","c","l","a","s","s","=","\"","m","e","t","a","\"",">","J","a",
                             "n","u","a","r","y"," ","2","0","2","6","<","/","d","i","v",">">>) = 1
    /\ Count(html_content, <<"<","d","i","v"," ","c","l","a","s","s","=","\"","a","b","s","t","r","a","c","t","\"",">">>) = 1
    /\ LET first == Min(Occurrences(html_content, <<"<","h","1",">">>) \cup {Len(html_content) + 1})
           close == Find(html_content, first, <<"<","/","h","1",">">>)
       IN  close > 0 /\ At(html_content, close, MetaBlock)

\* ------------------------------------------------------------------------
\* C7
\* ------------------------------------------------------------------------

\* line k of ls is a list item: a marker - or *, white space, item text
ItemLine(ls, k) ==
  /\ k >= 1 /\ k <= Len(ls)
  /\ LET l == ls[k]
         a == SkipWhile(l, 1, {" ", "\t"})
     IN  /\ a + 2 <= Len(l)
         /\ l[a] \in {"-", "*"}
         /\ l[a + 1] \in {" ", "\t"}

\* the text of the item of a line: what follows the marker and the white space
ItemText(l) ==
  LET a == SkipWhile(l, 1, {" ", "\t"})
  IN  Slice(l, SkipWhile(l, a + 1, {" ", "\t"}), Len(l) + 1)

\* the first lines of the contiguous runs of item lines of s
RunStarts(s) ==
  LET ls == Split(s, <<NL>>)
  IN  {k \in 1..Len(ls) : ItemLine(ls, k) /\ ~ItemLine(ls, k - 1)}

\* the length of the run of item lines that starts at line k
RunLength(ls, k) == Min({n \in 1..Len(ls) : ~ItemLine(ls, k + n)})

RECURSIVE ItemsHtml(_, _, _)
ItemsHtml(ls, k, n) ==
  IF n = 0 THEN <<>>
  ELSE <<"<","l","i",">">> \o ItemText(ls[k]) \o <<"<","/","l","i",">","\n">> \o ItemsHtml(ls, k + 1, n - 1)

\* the ul element of the run of item lines that starts at line k
RunElement(ls, k) == <<"<","u","l",">","\n">> \o ItemsHtml(ls, k, RunLength(ls, k)) \o <<"<","/","u","l",">">>

\* C7: every contiguous run of n item lines, with - markers or with * markers,
\* becomes one ul element of exactly n li items in order, each the text of its
\* line without marker; runs apart by a blank line are not merged and no li item
\* is empty.
C7_ListRuns ==
  pc = "build" =>
    LET ls == Split(md_content, <<NL>>)
    IN  /\ \A k \in RunStarts(md_content) : Contains(html_content, RunElement(ls, k))
        /\ Count(html_content, <<"<","u","l",">">>) = Cardinality(RunStarts(md_content))
        /\ ~Contains(html_content, <<"<","l","i",">","<","/","l","i",">">>)

\* ------------------------------------------------------------------------
\* C8
\* ------------------------------------------------------------------------

RECURSIVE FencedBodies(_, _)
\* the texts of the fenced code blocks of s from position i on, in order
FencedBodies(s, i) ==
  LET c == {j \in i..Len(s) : ReCodeBlock(s, j) > 0}
  IN  IF c = {} THEN <<>>
      ELSE LET j == Min(c)
               e == ReCodeBlock(s, j)
           IN  <<Slice(s, FenceOpen(s, j) + 1, e - 3)>> \o FencedBodies(s, e)

RECURSIVE PreBodies(_, _)
\* what stands between <pre><code> and </code></pre> in s from position i on, in order
PreBodies(s, i) ==
  LET a == Find(s, i, <<"<","p","r","e",">","<","c","o","d","e",">">>)
      b == IF a = 0 THEN 0 ELSE Find(s, a + 11, <<"<","/","c","o","d","e",">","<","/","p","r","e",">">>)
  IN  IF a = 0 \/ b = 0 THEN <<>>
      ELSE <<Slice(s, a + 11, b)>> \o PreBodies(s, b + 13)

\* C8: what stands between <pre><code> and </code></pre> in the final output is,
\* for every fenced code block, the text of the block with only < and > escaped:
\* no pass before or after the code block pass puts markup into it, and a
\* single-backquote span inside the block is not made an inline code span.
C8_CodeBlockVerbatim ==
  pc = "build" =>
    LET bodies == FencedBodies(md_content, 1)
    IN  PreBodies(html_content, 1) = [k \in 1..Len(bodies) |-> EscapeAngles(bodies[k])]

\* ------------------------------------------------------------------------
\* C9
\* ------------------------------------------------------------------------

\* the paragraph tags of s in order: TRUE for <p>, FALSE for </p>
ParagraphTags(s) ==
  LET ps == Ascending(Occurrences(s, <<"<","p",">">>) \cup Occurrences(s, <<"<","/","p",">">>))
  IN  [k \in 1..Len(ps) |-> At(s, ps[k], <<"<","p",">">>)]

\* as many <p> as </p>, every <p> followed by its </p> before the next <p>
Balanced(s) ==
  LET tags == ParagraphTags(s)
  IN  /\ Len(tags) % 2 = 0
      /\ \A k \in 1..Len(tags) : tags[k] = (k % 2 = 1)

\* C9: for an input without raw <p> or </p> the output has balanced paragraph
\* tags: the cleanup never removes one tag of a pair and leaves the other.
C9_ParagraphTagsBalanced ==
  (pc = "build" /\ ~Contains(file, <<"<","p",">">>) /\ ~Contains(file, <<"<","/","p",">">>)) =>
    Balanced(html_content)

\* ------------------------------------------------------------------------
\* C10
\* ------------------------------------------------------------------------

\* C10: every plain-text paragraph of the input, a non-blank chunk without
\* markdown syntax between blank lines, is in the output in a p element of its
\* own, whatever stands before it: a table, a list, a heading, a paragraph.
C10_PlainParagraphWrapped ==
  pc = "build" =>
    \A k \in 1..Len(Chunks(file)) :
      LET c == Chunks(file)[k]
      IN  (NonBlank(c) /\ NoMarkdown(c) /\ ~Contains(c, <<"<">>)) =>
            Contains(html_content, <<"<","p",">">> \o Strip(c) \o <<"<","/","p",">">>)

====
